---- MODULE Spec2Model ----
(***************************************************************************)
(* FIFO lot matching with same-day aggregation, as implemented by          *)
(* process_trades_fifo in fifo_processor.py.                               *)
(*                                                                         *)
(* The model follows the per-company loop of lines 65-192: one company's   *)
(* rows are read in input order, buys are accumulated in daily_buys, a     *)
(* sell first flushes the pending buckets into purchase_queue and is then  *)
(* matched against the queue from its head, and the end of the rows        *)
(* flushes what is still pending and collects the lots with quantity left. *)
(*                                                                         *)
(* Quantities and prices are naturals; the average price of a lot, a       *)
(* float quotient in the code, is kept as an exact reduced fraction.       *)
(* Strings are sequences of character codes, compared as Python compares   *)
(* str values.  Columns the loop only copies (Segment, ClientCode,         *)
(* ScripName, OrderNo, SellPrice) are left out.                            *)
(***************************************************************************)
EXTENDS Integers, Sequences, FiniteSets, TLC

\* Longest row stream of the company that is explored.
MaxRows == 3

\* Largest BuyQty / SellQty of a row.
MaxQty == 2

\* Buy prices of the rows that carry a buy leg.
Prices == {1, 2}

\* Calendar dates <<year, month, day>> of the rows.  A row without a date (NaT)
\* makes is_monotonic_increasing false, so its company is never processed.
Dates == {<<2023, 12, 31>>, <<2024, 1, 9>>}

VARIABLES
    company_trades,      \* rows of the company read so far (line 67, 75)
    purchase_queue,      \* line 70
    daily_buys,          \* line 73: date string -> pending bucket
    log,                 \* what lines 157, 161 and 167 print
    remaining_purchases, \* line 55
    pc,                  \* position in the loop of lines 75-192
    df,                  \* line 21: all the rows of the input file
    unsorted_companies,  \* line 41
    companies_to_process,\* line 62
    company_pos,         \* companies the loop of line 65 has gone through
    result_df            \* line 196

\* The variables of the whole run, which the loop over one company's rows
\* leaves alone.
runvars == <<df, unsorted_companies, companies_to_process, company_pos, result_df>>

vars == <<company_trades, purchase_queue, daily_buys, log, remaining_purchases, pc,
          df, unsorted_companies, companies_to_process, company_pos, result_df>>

(***************************************************************************)
(* Dates and date strings                                                  *)
(***************************************************************************)

\* Order of two Timestamp values (the dates carry no time of day).
DateLT(a, b) ==
    \/ a[1] < b[1]
    \/ a[1] = b[1] /\ a[2] < b[2]
    \/ a[1] = b[1] /\ a[2] = b[2] /\ a[3] < b[3]

DateLE(a, b) == a = b \/ DateLT(a, b)

\* The decimal digits of n, zero padded to width w, as character codes.
RECURSIVE Digits(_, _)
Digits(n, w) ==
    IF w = 0 THEN <<>> ELSE Append(Digits(n \div 10, w - 1), 48 + (n % 10))

\* strftime with the day first, as in the input file: not ordered like the dates.
StrftimeDMY(d) == Digits(d[3], 2) \o <<47>> \o Digits(d[2], 2) \o <<47>> \o Digits(d[1], 4)

\* trade_date.strftime('%Y-%m-%d') of line 77.
Strftime(d) == Digits(d[1], 4) \o <<45>> \o Digits(d[2], 2) \o <<45>> \o Digits(d[3], 2)

\* Python's < on two str values: lexicographic by code point.
StrLT(a, b) ==
    \/ \E k \in 1..Len(a) :
          /\ k <= Len(b)
          /\ a[k] < b[k]
          /\ \A j \in 1..(k - 1) : a[j] = b[j]
    \/ /\ Len(a) < Len(b)
       /\ \A j \in 1..Len(a) : a[j] = b[j]

StrLE(a, b) == a = b \/ StrLT(a, b)

\* sorted(...) of a set of strings.
RECURSIVE SortedStr(_)
SortedStr(S) ==
    IF S = {} THEN <<>>
    ELSE LET m == CHOOSE x \in S : \A y \in S : StrLE(x, y)
         IN  <<m>> \o SortedStr(S \ {m})

(***************************************************************************)
(* Rows                                                                    *)
(***************************************************************************)

\* The rows a company can have after the cleaning of lines 27-38: a buy leg,
\* a sell leg, neither, or both (explored with the same quantity on both legs
\* and the lowest price).
Rows ==
    { r \in [TradeDate : Dates, BuyQty : 0..MaxQty, BuyPrice : Prices \cup {0},
             SellQty : 0..MaxQty] :
        /\ (r.BuyPrice = 0) <=> (r.BuyQty = 0)
        /\ (r.BuyQty > 0 /\ r.SellQty > 0) =>
              (r.SellQty = r.BuyQty /\ \A p \in Prices : r.BuyPrice <= p) }

\* No check of the order of the dates: every company is processed.
IsMonotonicAny(trades) == TRUE

\* Lines 42-46 and 62: only a company whose dates never decrease is processed.
IsMonotonicIncreasing(trades) ==
    \A k \in 1..(Len(trades) - 1) : DateLE(trades[k].TradeDate, trades[k + 1].TradeDate)

\* Line 80.
BuyBranch(trade) == trade.BuyQty > 0

\* A sell leg handled whatever the buy leg: "if" where the code has "elif".
SellBranchIf(trade) == trade.SellQty > 0

\* Line 108: the elif.
SellBranch(trade) == ~BuyBranch(trade) /\ trade.SellQty > 0

(***************************************************************************)
(* Buys: the pending buckets                                               *)
(***************************************************************************)

\* Lines 81-103 with the latest index not recorded.
AddBuyKeepFirstIndex(daily, idx, trade) ==
    LET date_str == Strftime(trade.TradeDate)
        buy_amount == trade.BuyQty * trade.BuyPrice
    IN  IF date_str \notin DOMAIN daily
        THEN daily @@ (date_str :> [TradeDate |-> trade.TradeDate,
                                    BuyQty |-> trade.BuyQty,
                                    BuyAmount |-> buy_amount,
                                    Trades |-> <<idx>>,
                                    Last_Index |-> idx])
        ELSE [daily EXCEPT ![date_str] =
                [@ EXCEPT !.BuyQty = @ + trade.BuyQty,
                          !.BuyAmount = @ + buy_amount,
                          !.Trades = Append(@, idx)]]

\* Lines 81-103.
AddBuy(daily, idx, trade) ==
    LET date_str == Strftime(trade.TradeDate)
        buy_amount == trade.BuyQty * trade.BuyPrice
    IN  IF date_str \notin DOMAIN daily
        THEN daily @@ (date_str :> [TradeDate |-> trade.TradeDate,
                                    BuyQty |-> trade.BuyQty,
                                    BuyAmount |-> buy_amount,
                                    Trades |-> <<idx>>,
                                    Last_Index |-> idx])
        ELSE [daily EXCEPT ![date_str] =
                [@ EXCEPT !.BuyQty = @ + trade.BuyQty,
                          !.BuyAmount = @ + buy_amount,
                          !.Trades = Append(@, idx),
                          !.Last_Index = idx]]

(***************************************************************************)
(* Flushing buckets into the queue                                         *)
(***************************************************************************)

RECURSIVE GCD(_, _)
GCD(a, b) == IF b = 0 THEN a ELSE GCD(b, a % b)

\* The quotient n / d of two naturals, d > 0, in lowest terms.
Quotient(n, d) == [num |-> n \div GCD(n, d), den |-> d \div GCD(n, d)]

\* Lines 120 and 171.
AvgPrice(buy_data) ==
    IF buy_data.BuyQty > 0 THEN Quotient(buy_data.BuyAmount, buy_data.BuyQty)
    ELSE [num |-> 0, den |-> 1]

\* Lines 122-134 and 173-185: the lot made of a bucket.
MakeLot(buy_data, date) ==
    [TradeDate |-> buy_data.TradeDate,
     BuyQty |-> buy_data.BuyQty,
     BuyPrice |-> AvgPrice(buy_data),
     RemainingQty |-> buy_data.BuyQty,
     Original_Index |-> buy_data.Last_Index,
     AggregatedTrades |-> Len(buy_data.Trades),
     TradeDates |-> date]

\* Lines 113-116 with < for <=.
DatesToProcessStrict(daily, current_date_str) ==
    SelectSeq(SortedStr(DOMAIN daily), LAMBDA date : StrLT(date, current_date_str))

\* Lines 113-116.
DatesToProcess(daily, current_date_str) ==
    SelectSeq(SortedStr(DOMAIN daily), LAMBDA date : StrLE(date, current_date_str))

\* Lines 118-134: the lots appended for dates_to_process, in that order.
FlushedLots(daily, dates) == [k \in 1..Len(dates) |-> MakeLot(daily[dates[k]], dates[k])]

\* Lines 118-139 without the del of line 139.
RemoveDatesNoDel(daily, dates) == daily

\* Line 139: the flushed dates leave daily_buys.
RemoveDates(daily, dates) ==
    [date \in DOMAIN daily \ {dates[k] : k \in 1..Len(dates)} |-> daily[date]]

\* Line 170: sorted(daily_buys.items()).
RemainingDates(daily) == SortedStr(DOMAIN daily)

(***************************************************************************)
(* Matching a sell                                                         *)
(***************************************************************************)

\* The state of the while loop of lines 151-164.
MatchState(queue, qty_to_sell, matched) ==
    [queue |-> queue, qty_to_sell |-> qty_to_sell, matched |-> matched]

\* Lines 151-164 from index i (1-based) on; row is the index of the sell row.
RECURSIVE MatchFrom(_, _, _, _, _)
MatchFrom(queue, qty_to_sell, i, row, matched) ==
    IF ~(qty_to_sell > 0 /\ i <= Len(queue))
    THEN MatchState(queue, qty_to_sell, matched)
    ELSE IF queue[i].RemainingQty <= qty_to_sell
         THEN LET qty_used == queue[i].RemainingQty
              IN  MatchFrom([queue EXCEPT ![i].RemainingQty = 0],
                            qty_to_sell - qty_used, i + 1, row,
                            Append(matched, [kind |-> "Matched", row |-> row,
                                             lot |-> i, qty |-> qty_used]))
         ELSE MatchFrom([queue EXCEPT ![i].RemainingQty = @ - qty_to_sell],
                        0, i + 1, row,
                        Append(matched, [kind |-> "Matched", row |-> row,
                                         lot |-> i, qty |-> qty_to_sell]))

\* The loop walking the queue from its newest lot to its oldest.
RECURSIVE MatchDownFrom(_, _, _, _, _)
MatchDownFrom(queue, qty_to_sell, i, row, matched) ==
    IF ~(qty_to_sell > 0 /\ i >= 1)
    THEN MatchState(queue, qty_to_sell, matched)
    ELSE IF queue[i].RemainingQty <= qty_to_sell
         THEN LET qty_used == queue[i].RemainingQty
              IN  MatchDownFrom([queue EXCEPT ![i].RemainingQty = 0],
                                qty_to_sell - qty_used, i - 1, row,
                                Append(matched, [kind |-> "Matched", row |-> row,
                                                 lot |-> i, qty |-> qty_used]))
         ELSE MatchDownFrom([queue EXCEPT ![i].RemainingQty = @ - qty_to_sell],
                            0, i - 1, row,
                            Append(matched, [kind |-> "Matched", row |-> row,
                                             lot |-> i, qty |-> qty_to_sell]))

\* Lines 148-164 started at the tail of the queue.
MatchLifo(queue, sell_qty, row) == MatchDownFrom(queue, sell_qty, Len(queue), row, <<>>)

\* Lines 151-164 without the branch of line 152: the lot is always decremented.
RECURSIVE MatchNoClampFrom(_, _, _, _, _)
MatchNoClampFrom(queue, qty_to_sell, i, row, matched) ==
    IF ~(qty_to_sell > 0 /\ i <= Len(queue))
    THEN MatchState(queue, qty_to_sell, matched)
    ELSE MatchNoClampFrom([queue EXCEPT ![i].RemainingQty = @ - qty_to_sell],
                          0, i + 1, row,
                          Append(matched, [kind |-> "Matched", row |-> row,
                                           lot |-> i, qty |-> qty_to_sell]))

MatchNoClamp(queue, sell_qty, row) == MatchNoClampFrom(queue, sell_qty, 1, row, <<>>)

\* Lines 151-164 without line 155: a lot used up leaves qty_to_sell as it was.
RECURSIVE MatchNoDecrementFrom(_, _, _, _, _)
MatchNoDecrementFrom(queue, qty_to_sell, i, row, matched) ==
    IF ~(qty_to_sell > 0 /\ i <= Len(queue))
    THEN MatchState(queue, qty_to_sell, matched)
    ELSE IF queue[i].RemainingQty <= qty_to_sell
         THEN MatchNoDecrementFrom([queue EXCEPT ![i].RemainingQty = 0],
                                   qty_to_sell, i + 1, row,
                                   Append(matched, [kind |-> "Matched", row |-> row,
                                                    lot |-> i, qty |-> queue[i].RemainingQty]))
         ELSE MatchNoDecrementFrom([queue EXCEPT ![i].RemainingQty = @ - qty_to_sell],
                                   0, i + 1, row,
                                   Append(matched, [kind |-> "Matched", row |-> row,
                                                    lot |-> i, qty |-> qty_to_sell]))

MatchNoDecrement(queue, sell_qty, row) == MatchNoDecrementFrom(queue, sell_qty, 1, row, <<>>)

\* Lines 148-164 with the lots that reach 0 taken out of the queue.
MatchPop(queue, sell_qty, row) ==
    LET m == MatchFrom(queue, sell_qty, 1, row, <<>>)
    IN  MatchState(SelectSeq(m.queue, LAMBDA purchase : purchase.RemainingQty > 0),
                   m.qty_to_sell, m.matched)

\* Lines 148-164 with "if" for "while": only the first lot is looked at.
MatchFirstLot(queue, sell_qty, row) ==
    IF queue = <<>> THEN MatchState(queue, sell_qty, <<>>)
    ELSE LET m == MatchFrom(<<Head(queue)>>, sell_qty, 1, row, <<>>)
         IN  MatchState(m.queue \o Tail(queue), m.qty_to_sell, m.matched)

\* Lines 148-164: qty_to_sell = sell_qty, i = 0.
Match(queue, sell_qty, row) == MatchFrom(queue, sell_qty, 1, row, <<>>)

\* Lines 166-167 reporting the whole sell quantity.
ShortfallWhole(qty_to_sell, sell_qty, row) ==
    IF qty_to_sell > 0
    THEN <<[kind |-> "Warning", row |-> row, lot |-> 0, qty |-> sell_qty]>>
    ELSE <<>>

\* Lines 166-167.
Shortfall(qty_to_sell, sell_qty, row) ==
    IF qty_to_sell > 0
    THEN <<[kind |-> "Warning", row |-> row, lot |-> 0, qty |-> qty_to_sell]>>
    ELSE <<>>

(***************************************************************************)
(* The result of the company                                               *)
(***************************************************************************)

\* Lines 190-192 keeping the depleted lots too.
SurvivorsAll(queue) == queue

\* Lines 190-192.
Survivors(queue) == SelectSeq(queue, LAMBDA purchase : purchase.RemainingQty > 0)

(***************************************************************************)
(* The loop                                                                *)
(***************************************************************************)

\* The index label _ of the next row: its position among the rows read.  Only
\* the order of the labels matters to the loop.
NextIndex == Len(company_trades)

CanRead(trade) ==
    /\ pc = "loop"
    /\ Len(company_trades) < MaxRows
    /\ IsMonotonicIncreasing(Append(company_trades, trade))

\* Lines 65-73.
Init ==
    /\ company_trades = <<>>
    /\ purchase_queue = <<>>
    /\ daily_buys = <<>>
    /\ log = <<>>
    /\ remaining_purchases = <<>>
    /\ pc = "loop"
    /\ df = <<>>
    /\ unsorted_companies = <<>>
    /\ companies_to_process = <<>>
    /\ company_pos = 0
    /\ result_df = <<>>

\* The bucket update of a row: lines 80-105, skipped when the row has no buy leg.
AfterBuy(daily, idx, trade) ==
    IF BuyBranch(trade) THEN AddBuy(daily, idx, trade) ELSE daily

\* Lines 75-105: a row taken by the buy branch.
Buy(trade) ==
    /\ CanRead(trade)
    /\ BuyBranch(trade)
    /\ ~SellBranch(trade)
    /\ company_trades' = Append(company_trades, trade)
    /\ daily_buys' = AfterBuy(daily_buys, NextIndex, trade)
    /\ UNCHANGED <<purchase_queue, log, remaining_purchases, pc>>
    /\ UNCHANGED runvars

\* Lines 75-78 and 108-139: a row taken by the sell branch, up to the flush.
SellFlush(trade) ==
    /\ CanRead(trade)
    /\ SellBranch(trade)
    /\ LET daily == AfterBuy(daily_buys, NextIndex, trade)
           dates_to_process == DatesToProcess(daily, Strftime(trade.TradeDate))
       IN  /\ purchase_queue' = purchase_queue \o FlushedLots(daily, dates_to_process)
           /\ daily_buys' = RemoveDates(daily, dates_to_process)
    /\ company_trades' = Append(company_trades, trade)
    /\ pc' = "match"
    /\ UNCHANGED <<log, remaining_purchases>>
    /\ UNCHANGED runvars

\* Lines 141-167: the sell of the current row is matched.
SellMatch ==
    /\ pc = "match"
    /\ LET row == Len(company_trades) - 1
           sell_qty == company_trades[Len(company_trades)].SellQty
           m == Match(purchase_queue, sell_qty, row)
       IN  /\ purchase_queue' = m.queue
           /\ log' = log \o m.matched \o Shortfall(m.qty_to_sell, sell_qty, row)
    /\ pc' = "loop"
    /\ UNCHANGED <<company_trades, daily_buys, remaining_purchases>>
    /\ UNCHANGED runvars

\* Lines 75-108: a row with neither leg.
Idle(trade) ==
    /\ CanRead(trade)
    /\ ~BuyBranch(trade)
    /\ ~SellBranch(trade)
    /\ company_trades' = Append(company_trades, trade)
    /\ UNCHANGED <<purchase_queue, daily_buys, log, remaining_purchases, pc>>
    /\ UNCHANGED runvars

\* Lines 169-187: the rows are exhausted, the pending buckets become lots.
EndFlush ==
    /\ pc = "loop"
    /\ Len(company_trades) >= 1
    /\ purchase_queue' = purchase_queue \o FlushedLots(daily_buys, RemainingDates(daily_buys))
    /\ pc' = "end"
    /\ UNCHANGED <<company_trades, daily_buys, log, remaining_purchases>>
    /\ UNCHANGED runvars

\* Lines 189-192.
Collect ==
    /\ pc = "end"
    /\ remaining_purchases' = remaining_purchases \o Survivors(purchase_queue)
    /\ pc' = "done"
    /\ UNCHANGED <<company_trades, purchase_queue, daily_buys, log>>
    /\ UNCHANGED runvars

Next ==
    \/ \E trade \in Rows : Buy(trade)
    \/ \E trade \in Rows : SellFlush(trade)
    \/ SellMatch
    \/ \E trade \in Rows : Idle(trade)
    \/ EndFlush
    \/ Collect

Spec == Init /\ [][Next]_vars

(***************************************************************************)
(* The whole run: all the companies of one input file                      *)
(*                                                                         *)
(* Lines 40-63 sort out the companies whose dates decrease, lines 65-192   *)
(* go through the others one after the other, each step below being one    *)
(* pass of the loop of line 65, and lines 194-224 build the result.        *)
(***************************************************************************)

\* ScripName values of the input.
Companies == {"A", "B"}

\* The rows of the input files explored: one leg each, buys at one price.
DfRows ==
    { [ScripName |-> c, TradeDate |-> d, BuyQty |-> q[1],
       BuyPrice |-> IF q[1] > 0 THEN 1 ELSE 0, SellQty |-> q[2]] :
        c \in Companies, d \in Dates, q \in {<<1, 0>>, <<2, 0>>, <<0, 1>>, <<0, 2>>} }

\* The input files explored: up to MaxRows rows, in any order.
DataFrames == UNION {[1..n -> DfRows] : n \in 0..MaxRows}

\* df['ScripName'].unique() of lines 42 and 58: in order of first appearance.
UniqueNames(frame) ==
    LET firsts == SelectSeq([k \in 1..Len(frame) |-> k],
                            LAMBDA k : \A j \in 1..(k - 1) :
                                          frame[j].ScripName # frame[k].ScripName)
    IN  [i \in 1..Len(firsts) |-> frame[firsts[i]].ScripName]

\* df[df['ScripName'] == company] of lines 43 and 67: the rows ...
CompanyRows(frame, company) ==
    SelectSeq(frame, LAMBDA trade : trade.ScripName = company)

\* ... and their index labels, which read_csv numbers from 0.
CompanyLabels(frame, company) ==
    SelectSeq([k \in 1..Len(frame) |-> k - 1],
              LAMBDA label : frame[label + 1].ScripName = company)

\* Lines 41-46.
UnsortedCompanies(frame) ==
    SelectSeq(UniqueNames(frame),
              LAMBDA company : ~IsMonotonicIncreasing(CompanyRows(frame, company)))

\* Line 62.
CompaniesToProcess(frame, unsorted) ==
    SelectSeq(UniqueNames(frame),
              LAMBDA c : \A k \in 1..Len(unsorted) : unsorted[k] # c)

\* Line 73 moved out of the loop: the buckets of the company before stay.
KeptDaily(previous) == previous

\* Line 70: purchase_queue = [].
FreshQueue(previous) == <<>>

\* Line 73: daily_buys = {}.
FreshDaily(previous) == <<>>

\* The queue, the buckets and the prints of one pass of the loop of line 65.
LoopState(queue, daily, printed) ==
    [queue |-> queue, daily |-> daily, printed |-> printed]

\* Lines 76-167: one row of the company, with its index label.
RowStep(st, idx, trade) ==
    LET daily == AfterBuy(st.daily, idx, trade)
    IN  IF SellBranch(trade)
        THEN LET dates_to_process == DatesToProcess(daily, Strftime(trade.TradeDate))
                 flushed == st.queue \o FlushedLots(daily, dates_to_process)
                 m == Match(flushed, trade.SellQty, idx)
             IN  LoopState(m.queue, RemoveDates(daily, dates_to_process),
                           st.printed \o m.matched
                               \o Shortfall(m.qty_to_sell, trade.SellQty, idx))
        ELSE LoopState(st.queue, daily, st.printed)

\* Lines 75-167: the rows of the company from the k-th on.
RECURSIVE RowsFrom(_, _, _, _)
RowsFrom(st, trades, labels, k) ==
    IF k > Len(trades) THEN st
    ELSE RowsFrom(RowStep(st, labels[k], trades[k]), trades, labels, k + 1)

\* Lines 169-187.
EndOfRows(st) ==
    LoopState(st.queue \o FlushedLots(st.daily, RemainingDates(st.daily)),
              st.daily, st.printed)

\* Lines 124 and 175: the lots carry the name of the company.
WithScripName(queue, company) ==
    [i \in 1..Len(queue) |-> [ScripName |-> company] @@ queue[i]]

\* The result unsorted: in the order the lots were collected.
SortValuesNone(purchases) ==
    { [i \in 1..Len(purchases) |-> [index |-> i - 1] @@ purchases[i]] }

\* Lines 196-200: pd.DataFrame(remaining_purchases).sort_values('Original_Index').
\* The rows keep their index labels; the default sort is not stable, so rows
\* with equal keys may come in any order.
SortValues(purchases) ==
    LET n == Len(purchases)
        orders == {o \in [1..n -> 1..n] :
                     /\ \A i, j \in 1..n : i # j => o[i] # o[j]
                     /\ \A i, j \in 1..n :
                           i < j => purchases[o[i]].Original_Index
                                       <= purchases[o[j]].Original_Index}
    IN  { [i \in 1..n |-> [index |-> o[i] - 1] @@ purchases[o[i]]] : o \in orders }

\* Line 207: strftime('%d/%m/%Y').
FormatDate(d) == Digits(d[3], 2) \o <<47>> \o Digits(d[2], 2) \o <<47>> \o Digits(d[1], 4)

\* Lines 201-218: a row of the returned frame.
FormatRow(row) ==
    [index |-> row.index,
     ScripName |-> row.ScripName,
     TradeDate |-> FormatDate(row.TradeDate),
     BuyQty |-> row.BuyQty,
     BuyPrice |-> row.BuyPrice,
     RemainingQty |-> row.RemainingQty,
     RemainingCost |-> Quotient(row.RemainingQty * row.BuyPrice.num, row.BuyPrice.den),
     NumTrades |-> row.AggregatedTrades]

\* Lines 19-38: the file is read and cleaned.
InitRun ==
    /\ df \in DataFrames
    /\ company_trades = <<>>
    /\ purchase_queue = <<>>
    /\ daily_buys = <<>>
    /\ log = <<>>
    /\ remaining_purchases = <<>>
    /\ unsorted_companies = <<>>
    /\ companies_to_process = <<>>
    /\ company_pos = 0
    /\ result_df = <<>>
    /\ pc = "validate"

\* Lines 40-63.
Validate ==
    /\ pc = "validate"
    /\ unsorted_companies' = UnsortedCompanies(df)
    /\ companies_to_process' = CompaniesToProcess(df, UnsortedCompanies(df))
    /\ pc' = "companies"
    /\ UNCHANGED <<df, company_trades, purchase_queue, daily_buys, log,
                   remaining_purchases, company_pos, result_df>>

\* Lines 65-192: one company, from its first row to the collection of its lots.
ProcessCompany ==
    /\ pc = "companies"
    /\ company_pos < Len(companies_to_process)
    /\ LET company == companies_to_process[company_pos + 1]
           trades == CompanyRows(df, company)
           start == LoopState(FreshQueue(purchase_queue), FreshDaily(daily_buys), <<>>)
           final == EndOfRows(RowsFrom(start, trades, CompanyLabels(df, company), 1))
           queue == WithScripName(final.queue, company)
       IN  /\ company_trades' = trades
           /\ purchase_queue' = queue
           /\ daily_buys' = final.daily
           /\ log' = log \o final.printed
           /\ remaining_purchases' = remaining_purchases \o Survivors(queue)
    /\ company_pos' = company_pos + 1
    /\ UNCHANGED <<df, unsorted_companies, companies_to_process, result_df, pc>>

\* Lines 195-200.
SortResult ==
    /\ pc = "companies"
    /\ company_pos = Len(companies_to_process)
    /\ remaining_purchases # <<>>
    /\ result_df' \in SortValues(remaining_purchases)
    /\ pc' = "sorted"
    /\ UNCHANGED <<df, company_trades, purchase_queue, daily_buys, log, remaining_purchases,
                   unsorted_companies, companies_to_process, company_pos>>

\* Lines 201-221.
FormatResult ==
    /\ pc = "sorted"
    /\ result_df' = [i \in 1..Len(result_df) |-> FormatRow(result_df[i])]
    /\ pc' = "returned"
    /\ UNCHANGED <<df, company_trades, purchase_queue, daily_buys, log, remaining_purchases,
                   unsorted_companies, companies_to_process, company_pos>>

\* Lines 222-224: nothing is left, an empty frame is returned.
ReturnEmpty ==
    /\ pc = "companies"
    /\ company_pos = Len(companies_to_process)
    /\ remaining_purchases = <<>>
    /\ result_df' = <<>>
    /\ pc' = "returned"
    /\ UNCHANGED <<df, company_trades, purchase_queue, daily_buys, log, remaining_purchases,
                   unsorted_companies, companies_to_process, company_pos>>

NextRun ==
    \/ Validate
    \/ ProcessCompany
    \/ SortResult
    \/ FormatResult
    \/ ReturnEmpty

SpecRun == InitRun /\ [][NextRun]_vars

(***************************************************************************)
(* Vocabulary of the properties                                            *)
(***************************************************************************)

\* The row with index label k (labels start at 0).
RowAt(k) == company_trades[k + 1]

Indices == 0..(Len(company_trades) - 1)

\* A buy event is a row with a buy leg; a sell event is a row with a sell leg
\* and no buy leg.
IsBuyEvent(r) == r.BuyQty > 0

IsSellEvent(r) == r.BuyQty = 0 /\ r.SellQty > 0

BuyIdx == {k \in Indices : IsBuyEvent(RowAt(k))}

SellIdx == {k \in Indices : IsSellEvent(RowAt(k))}

\* The sell events whose matching is over.
MatchedSellIdx == IF pc = "match" THEN SellIdx \ {Len(company_trades) - 1} ELSE SellIdx

\* The number of sell events before row k: rows with the same number have no
\* sell event between them.
SegOf(k) == Cardinality({s \in 0..(k - 1) : IsSellEvent(RowAt(s))})

\* The sum of the values of a function with a finite domain.
RECURSIVE SumOver(_, _)
SumOver(S, f) ==
    IF S = {} THEN 0
    ELSE LET x == CHOOSE y \in S : TRUE
         IN  f[x] + SumOver(S \ {x}, f)

SumFun(f) == SumOver(DOMAIN f, f)

SumRemaining(queue) == SumFun([i \in 1..Len(queue) |-> queue[i].RemainingQty])

Consumed(queue) == SumFun([i \in 1..Len(queue) |-> queue[i].BuyQty - queue[i].RemainingQty])

LogIdx(kind) == {n \in 1..Len(log) : log[n].kind = kind}

TotalShortfall == SumFun([n \in LogIdx("Warning") |-> log[n].qty])

TotalSold == SumFun([k \in MatchedSellIdx |-> RowAt(k).SellQty])

\* The buy rows merged into a lot: those of the lot's date with no sell event
\* between them and the row the lot is indexed by.
LotRows(lot) ==
    LET seg == SegOf(lot.Original_Index)
    IN  {k \in Indices : /\ IsBuyEvent(RowAt(k))
                         /\ RowAt(k).TradeDate = lot.TradeDate
                         /\ SegOf(k) = seg}

(***************************************************************************)
(* Properties                                                              *)
(***************************************************************************)

\* C1: FIFO consumption: whenever a lot of the queue has remaining quantity
\* below its original quantity, every lot enqueued before it is at 0, and the
\* lots a sell takes from are taken in enqueue order.
C1_FifoOrder ==
    /\ \A j \in 1..Len(purchase_queue) :
          purchase_queue[j].RemainingQty < purchase_queue[j].BuyQty
          => \A i \in 1..(j - 1) : purchase_queue[i].RemainingQty = 0
    /\ \A a, b \in LogIdx("Matched") :
          (a < b /\ log[a].row = log[b].row) => log[a].lot < log[b].lot

\* A sell has used up the first lot and part of a later one.
C1_Witness ==
    \E j \in 2..Len(purchase_queue) :
        /\ purchase_queue[j].RemainingQty > 0
        /\ purchase_queue[j].RemainingQty < purchase_queue[j].BuyQty
        /\ purchase_queue[1].RemainingQty = 0

\* C2: every lot of the queue has 0 <= RemainingQty <= BuyQty, in every state.
C2_RemainingInRange ==
    \A i \in 1..Len(purchase_queue) :
        /\ 0 <= purchase_queue[i].RemainingQty
        /\ purchase_queue[i].RemainingQty <= purchase_queue[i].BuyQty

\* A sell larger than everything in the queue has been matched: lots are at 0
\* and a shortfall is logged.
C2_Witness ==
    /\ LogIdx("Warning") # {}
    /\ \E i \in 1..Len(purchase_queue) : purchase_queue[i].RemainingQty = 0

\* C3: conservation: once the events read are processed, the quantity taken
\* out of the lots equals the sell quantity of the sell events minus the
\* shortfalls reported.
C3_Conservation ==
    pc # "match" => Consumed(purchase_queue) = TotalSold - TotalShortfall

\* The stream is over, with quantity consumed and a shortfall reported.
C3_Witness ==
    /\ pc = "done"
    /\ Consumed(purchase_queue) > 0
    /\ TotalShortfall > 0

\* C4: a sell larger than the quantity left in the queue after its flush
\* reports a shortfall of the difference (the whole sell when nothing is
\* left), a sell that is satisfied reports none, and the loop goes on to the
\* next row either way.
C4_ShortfallReported ==
    [][pc = "match" =>
        LET row == Len(company_trades) - 1
            sell_qty == RowAt(row).SellQty
            available == SumRemaining(purchase_queue)
            printed == SubSeq(log', Len(log) + 1, Len(log'))
            warnings == SelectSeq(printed, LAMBDA e : e.kind = "Warning")
        IN  /\ sell_qty > available =>
                 warnings = <<[kind |-> "Warning", row |-> row, lot |-> 0,
                               qty |-> sell_qty - available]>>
            /\ sell_qty <= available => warnings = <<>>
            /\ pc' = "loop"
            /\ company_trades' = company_trades
            /\ daily_buys' = daily_buys]_vars

\* After a shortfall was reported, a later sell has been matched against a lot.
C4_Witness ==
    \E w \in LogIdx("Warning") : \E m \in LogIdx("Matched") :
        /\ log[m].row > log[w].row
        /\ log[m].qty > 0

\* C5: the flush of a sell appends a lot for every pending bucket dated on or
\* before the sell, in ascending date order and with its whole quantity,
\* leaves no such bucket pending, and decrements nothing: the matching is the
\* step that follows.
C5_FlushBeforeMatch ==
    [][(pc = "loop" /\ pc' = "match") =>
        LET sell == company_trades'[Len(company_trades')]
            n == Len(purchase_queue)
            new == SubSeq(purchase_queue', n + 1, Len(purchase_queue'))
            due == {d \in DOMAIN daily_buys :
                       DateLE(daily_buys[d].TradeDate, sell.TradeDate)}
        IN  /\ Len(purchase_queue') >= n
            /\ SubSeq(purchase_queue', 1, n) = purchase_queue
            /\ Len(new) = Cardinality(due)
            /\ \A d \in due : \E k \in 1..Len(new) :
                  /\ new[k].TradeDate = daily_buys[d].TradeDate
                  /\ new[k].BuyQty = daily_buys[d].BuyQty
            /\ \A k \in 1..Len(new) : new[k].RemainingQty = new[k].BuyQty
            /\ \A k, l \in 1..Len(new) :
                  k < l => DateLT(new[k].TradeDate, new[l].TradeDate)
            /\ \A d \in DOMAIN daily_buys' :
                  DateLT(sell.TradeDate, daily_buys'[d].TradeDate)]_vars

\* A sell has taken quantity from a lot of its own date, flushed by that sell.
C5_Witness ==
    \E m \in LogIdx("Matched") :
        /\ log[m].qty > 0
        /\ purchase_queue[log[m].lot].TradeDate = RowAt(log[m].row).TradeDate
        /\ SegOf(purchase_queue[log[m].lot].Original_Index) = SegOf(log[m].row)
        /\ Len(purchase_queue) >= 2
        /\ purchase_queue[1].TradeDate # purchase_queue[2].TradeDate
        /\ SegOf(purchase_queue[1].Original_Index) = SegOf(purchase_queue[2].Original_Index)

\* C6 as stated: the lots of the company never contain two lots with the same
\* acquisition date.
C6_OneLotPerDate ==
    \A i, j \in 1..Len(purchase_queue) :
        i # j => purchase_queue[i].TradeDate # purchase_queue[j].TradeDate

\* The dated groups of buy rows: same date, no sell event between them.
BuyGroups == {<<SegOf(k), RowAt(k).TradeDate>> : k \in BuyIdx}

\* C6: same-day aggregation, amended: buy events that share a date and have no
\* sell event between them are merged into one lot; two lots have the same
\* acquisition date only when a sell event lies between their buy rows, and
\* at the end of the stream there is exactly one lot for each date of each
\* run of rows between sell events.
C6_OneLotPerDateBetweenSells ==
    /\ \A i, j \in 1..Len(purchase_queue) :
          (i < j /\ purchase_queue[i].TradeDate = purchase_queue[j].TradeDate)
          => \E s \in SellIdx :
                /\ \A k \in LotRows(purchase_queue[i]) : k < s
                /\ \A k \in LotRows(purchase_queue[j]) : s < k
                /\ purchase_queue[i].Original_Index < s
                /\ s < purchase_queue[j].Original_Index
    /\ pc \in {"end", "done"} => Len(purchase_queue) = Cardinality(BuyGroups)

\* A buy, a sell and a buy of one date: the sell took from the lot of the first
\* buy, and the second buy made a second lot of that date.
C6_Witness ==
    /\ pc = "done"
    /\ Len(purchase_queue) = 2
    /\ purchase_queue[1].TradeDate = purchase_queue[2].TradeDate
    /\ purchase_queue[1].RemainingQty < purchase_queue[1].BuyQty
    /\ RowAt(1).TradeDate = purchase_queue[1].TradeDate

\* C7: a lot a sell has taken from is made only of buy rows that precede the
\* sell row and are dated on or before it, and stays so: no later buy is
\* merged into it.
C7_NoLaterBuys ==
    \A m \in LogIdx("Matched") :
        LET lot == purchase_queue[log[m].lot]
            sell == log[m].row
        IN  /\ IsSellEvent(RowAt(sell))
            /\ lot.Original_Index < sell
            /\ DateLE(lot.TradeDate, RowAt(sell).TradeDate)
            /\ \A k \in LotRows(lot) : k < sell
            /\ lot.BuyQty = SumFun([k \in LotRows(lot) |-> RowAt(k).BuyQty])

\* A sell took from a lot, and a buy of the lot's date came after the sell.
C7_Witness ==
    \E m \in LogIdx("Matched") : \E k \in BuyIdx :
        /\ log[m].qty > 0
        /\ k > log[m].row
        /\ RowAt(k).TradeDate = purchase_queue[log[m].lot].TradeDate
        /\ pc = "done"

\* The lots nothing has been matched against since they were appended.
FreshLots ==
    {i \in 1..Len(purchase_queue) :
        SegOf(purchase_queue[i].Original_Index) = Cardinality(MatchedSellIdx)}

\* C8: every lot has the summed quantity of the buy rows merged into it, their
\* quantity-weighted average price, their number and the index of the last of
\* them, and starts with its whole quantity remaining.
C8_AggregatedLotValues ==
    /\ \A i \in 1..Len(purchase_queue) :
          LET lot == purchase_queue[i]
              rows == LotRows(lot)
              qty == SumFun([k \in rows |-> RowAt(k).BuyQty])
              amount == SumFun([k \in rows |-> RowAt(k).BuyQty * RowAt(k).BuyPrice])
          IN  /\ rows # {}
              /\ lot.BuyQty = qty
              /\ lot.BuyPrice.den > 0
              /\ lot.BuyPrice.num * qty = amount * lot.BuyPrice.den
              /\ lot.AggregatedTrades = Cardinality(rows)
              /\ lot.Original_Index \in rows
              /\ \A k \in rows : k <= lot.Original_Index
    /\ \A i \in FreshLots :
          purchase_queue[i].RemainingQty = purchase_queue[i].BuyQty

\* A lot made of two buys at different prices: its price is not a whole number.
C8_Witness ==
    \E i \in 1..Len(purchase_queue) :
        /\ purchase_queue[i].AggregatedTrades >= 2
        /\ purchase_queue[i].BuyPrice.den > 1

\* The index of the last sell event, -1 when there is none.
LastSell == IF SellIdx = {} THEN -1 ELSE CHOOSE s \in SellIdx : \A t \in SellIdx : t <= s

\* C9: at the end of the stream every pending bucket becomes a lot, appended
\* in ascending date order with its whole quantity remaining, so the buys
\* after the last sell event are in the output with all of their quantity.
C9_EndOfStreamFlush ==
    [][/\ (pc = "loop" /\ pc' = "end") =>
            LET n == Len(purchase_queue)
                new == SubSeq(purchase_queue', n + 1, Len(purchase_queue'))
            IN  /\ Len(purchase_queue') >= n
                /\ SubSeq(purchase_queue', 1, n) = purchase_queue
                /\ Len(new) = Cardinality(DOMAIN daily_buys)
                /\ \A d \in DOMAIN daily_buys : \E k \in 1..Len(new) :
                      /\ new[k].TradeDate = daily_buys[d].TradeDate
                      /\ new[k].BuyQty = daily_buys[d].BuyQty
                      /\ new[k].RemainingQty = daily_buys[d].BuyQty
                /\ \A k, l \in 1..Len(new) :
                      k < l => DateLT(new[k].TradeDate, new[l].TradeDate)
       /\ (pc = "end" /\ pc' = "done") =>
            LET late == {k \in BuyIdx : k > LastSell}
                out == {i \in 1..Len(remaining_purchases') :
                           remaining_purchases'[i].Original_Index > LastSell}
            IN  SumFun([i \in out |-> remaining_purchases'[i].RemainingQty])
                    = SumFun([k \in late |-> RowAt(k).BuyQty])]_vars

\* After the last sell event, buys of two dates were flushed at the end of the
\* stream and are both in the output.
C9_Witness ==
    /\ pc = "done"
    /\ SellIdx # {}
    /\ Len(remaining_purchases) = 2
    /\ remaining_purchases[1].Original_Index > LastSell
    /\ DateLT(remaining_purchases[1].TradeDate, remaining_purchases[2].TradeDate)

\* C10: the output of the company is exactly its lots with quantity left, in
\* queue order; the depleted lots are left out of the output and stay in the
\* queue.
C10_SurvivorsOnly ==
    [][(pc = "end" /\ pc' = "done") =>
        LET alive == {i \in 1..Len(purchase_queue) : purchase_queue[i].RemainingQty > 0}
            out == SubSeq(remaining_purchases', Len(remaining_purchases) + 1,
                          Len(remaining_purchases'))
        IN  /\ purchase_queue' = purchase_queue
            /\ Len(out) = Cardinality(alive)
            /\ \A i \in alive : \E n \in 1..Len(out) : out[n] = purchase_queue[i]
            /\ \A n \in 1..Len(out) : out[n].RemainingQty > 0
            /\ \A i, j \in alive : \A n, o \in 1..Len(out) :
                  (i < j /\ out[n] = purchase_queue[i] /\ out[o] = purchase_queue[j])
                  => n < o]_vars

\* The output holds a lot, and the queue also holds a lot depleted to 0.
C10_Witness ==
    /\ pc = "done"
    /\ Len(remaining_purchases) >= 1
    /\ Len(remaining_purchases) < Len(purchase_queue)
    /\ \E i \in 1..Len(purchase_queue) :
          purchase_queue[i].RemainingQty = 0 /\ purchase_queue[i].BuyQty > 0

\* C15: lot lifecycle: a lot of the queue is never removed or moved, only its
\* RemainingQty changes and only downwards, only the matching of a sell
\* decrements it, and a row taken as a buy changes the pending buckets and
\* nothing of the queue.
C15_LotLifecycle ==
    [][/\ Len(purchase_queue') >= Len(purchase_queue)
       /\ \A i \in 1..Len(purchase_queue) :
             /\ purchase_queue'[i] =
                   [purchase_queue[i] EXCEPT !.RemainingQty = purchase_queue'[i].RemainingQty]
             /\ purchase_queue'[i].RemainingQty <= purchase_queue[i].RemainingQty
             /\ purchase_queue'[i].RemainingQty < purchase_queue[i].RemainingQty
                   => (pc = "match" /\ IsSellEvent(RowAt(Len(company_trades) - 1)))
       /\ (/\ Len(company_trades') = Len(company_trades) + 1
           /\ IsBuyEvent(company_trades'[Len(company_trades')]))
             => /\ purchase_queue' = purchase_queue
                /\ daily_buys' # daily_buys]_vars

\* A sell has taken from a lot, and a buy read after it waits in a bucket
\* while the lot keeps its place.
C15_Witness ==
    /\ pc = "loop"
    /\ DOMAIN daily_buys # {}
    /\ \E i \in 1..Len(purchase_queue) :
          purchase_queue[i].RemainingQty < purchase_queue[i].BuyQty

\* C16: for rows that never decrease in date, the queue never decreases in
\* acquisition date from its first to its last lot, in every state.
C16_QueueDateOrder ==
    \A i, j \in 1..Len(purchase_queue) :
        i < j => DateLE(purchase_queue[i].TradeDate, purchase_queue[j].TradeDate)

\* A sell flushed a lot, and the end-of-stream flush appended a lot of a later
\* date behind it.
C16_Witness ==
    /\ pc = "end"
    /\ Len(purchase_queue) = 2
    /\ purchase_queue[1].Original_Index < LastSell
    /\ LastSell < purchase_queue[2].Original_Index
    /\ DateLT(purchase_queue[1].TradeDate, purchase_queue[2].TradeDate)

\* C17: a row with both legs is taken as a buy only: its quantity goes to the
\* bucket of its date, nothing is flushed, decremented or reported.  A row
\* with neither leg changes neither the buckets nor the queue.
C17_OneLegPerRow ==
    [][Len(company_trades') = Len(company_trades) + 1 =>
        LET r == company_trades'[Len(company_trades')]
            key == CHOOSE d \in DOMAIN daily_buys' :
                       daily_buys'[d].TradeDate = r.TradeDate
            before == IF \E d \in DOMAIN daily_buys : daily_buys[d].TradeDate = r.TradeDate
                      THEN daily_buys[key].BuyQty ELSE 0
        IN  /\ (r.BuyQty > 0 /\ r.SellQty > 0) =>
                  /\ purchase_queue' = purchase_queue
                  /\ log' = log
                  /\ pc' = "loop"
                  /\ \E d \in DOMAIN daily_buys' : daily_buys'[d].TradeDate = r.TradeDate
                  /\ daily_buys'[key].BuyQty = before + r.BuyQty
                  /\ daily_buys'[key].Last_Index = Len(company_trades)
                  /\ DOMAIN daily_buys \subseteq DOMAIN daily_buys'
                  /\ \A d \in DOMAIN daily_buys \ {key} : daily_buys'[d] = daily_buys[d]
            /\ (r.BuyQty = 0 /\ r.SellQty = 0) =>
                  /\ purchase_queue' = purchase_queue
                  /\ daily_buys' = daily_buys
                  /\ log' = log
                  /\ pc' = "loop"]_vars

\* A row with both legs was read while the queue held a lot with quantity left
\* and a bucket was pending: a sell would have flushed and decremented.
C17_Witness ==
    /\ pc = "loop"
    /\ Len(company_trades) >= 1
    /\ RowAt(Len(company_trades) - 1).BuyQty > 0
    /\ RowAt(Len(company_trades) - 1).SellQty > 0
    /\ \E i \in 1..Len(purchase_queue) : purchase_queue[i].RemainingQty > 0
    /\ Cardinality(DOMAIN daily_buys) = 1

\* C18: for rows that never decrease in date, no bucket is pending right after
\* the flush of a sell: a bucket dated after the sell cannot exist.
C18_NothingPendingAfterFlush ==
    pc = "match" => DOMAIN daily_buys = {}

\* A sell dated after two pending buckets of different dates has flushed both.
C18_Witness ==
    /\ pc = "match"
    /\ Len(purchase_queue) = 2
    /\ DateLT(purchase_queue[1].TradeDate, purchase_queue[2].TradeDate)
    /\ RowAt(Len(company_trades) - 1).TradeDate = purchase_queue[2].TradeDate

\* C19: after the end-of-stream flush the original quantities of the lots add
\* up to the quantities of the buy rows, and their trade counts to the number
\* of buy rows: aggregation loses and duplicates nothing.
C19_BoughtQuantityKept ==
    pc \in {"end", "done"} =>
        /\ SumFun([i \in 1..Len(purchase_queue) |-> purchase_queue[i].BuyQty])
              = SumFun([k \in BuyIdx |-> RowAt(k).BuyQty])
        /\ SumFun([i \in 1..Len(purchase_queue) |-> purchase_queue[i].AggregatedTrades])
              = Cardinality(BuyIdx)

\* The stream is over with a lot merged from two buys and a sell read.
C19_Witness ==
    /\ pc = "end"
    /\ SellIdx # {}
    /\ \E i \in 1..Len(purchase_queue) : purchase_queue[i].AggregatedTrades = 2

\* C20: a sell that reports a shortfall leaves every lot of the queue at 0, and
\* a sell that reports none lowers the total remaining quantity of the queue
\* by exactly its quantity.
C20_ShortfallOnlyWhenExhausted ==
    [][pc = "match" =>
        LET sell_qty == RowAt(Len(company_trades) - 1).SellQty
            printed == SubSeq(log', Len(log) + 1, Len(log'))
            short == \E n \in 1..Len(printed) :
                         printed[n].kind = "Warning" /\ printed[n].qty > 0
        IN  /\ short => \A i \in 1..Len(purchase_queue') :
                            purchase_queue'[i].RemainingQty = 0
            /\ ~short => SumRemaining(purchase_queue')
                             = SumRemaining(purchase_queue) - sell_qty]_vars

\* A sell took all that a lot held and still reported a shortfall.
C20_Witness ==
    \E w \in LogIdx("Warning") : \E m \in LogIdx("Matched") :
        /\ log[m].row = log[w].row
        /\ log[m].qty > 0
        /\ log[w].qty > 0
        /\ purchase_queue[log[m].lot].RemainingQty = 0

(***************************************************************************)
(* Vocabulary of the properties of the whole run                           *)
(***************************************************************************)

\* The index labels of the rows of company c in the input.
LabelsOf(c) == {k \in 0..(Len(df) - 1) : df[k + 1].ScripName = c}

\* The dates of company c never decrease down the input.
Chronological(c) ==
    \A k, l \in LabelsOf(c) : k < l => DateLE(df[k + 1].TradeDate, df[l + 1].TradeDate)

\* The loop of line 65 has gone through every company it processes.
AllProcessed ==
    \/ pc \in {"sorted", "returned"}
    \/ pc = "companies" /\ company_pos = Len(companies_to_process)

\* The companies the loop of line 65 has gone through.
ProcessedCompanies == {companies_to_process[k] : k \in 1..company_pos}

\* What a lot says of quantities, prices and dates: all but its company name
\* and its index label.
Core(lot) ==
    [TradeDate |-> lot.TradeDate, BuyQty |-> lot.BuyQty, BuyPrice |-> lot.BuyPrice,
     RemainingQty |-> lot.RemainingQty, AggregatedTrades |-> lot.AggregatedTrades]

CoreSeq(lots) == [i \in 1..Len(lots) |-> Core(lots[i])]

\* The lots company c has in the collected output, in order.
OutputOf(c) == SelectSeq(remaining_purchases, LAMBDA lot : lot.ScripName = c)

\* The lots left when the rows of company c are the whole input: labels from
\* 0, nothing before them.
Alone(c) ==
    LET trades == CompanyRows(df, c)
        labels == [k \in 1..Len(trades) |-> k - 1]
        final == EndOfRows(RowsFrom(LoopState(<<>>, <<>>, <<>>), trades, labels, 1))
    IN  SelectSeq(final.queue, LAMBDA lot : lot.RemainingQty > 0)

(***************************************************************************)
(* Properties of the whole run                                             *)
(***************************************************************************)

\* C11: the returned rows are the collected lots of all companies, each once,
\* in strictly ascending order of the index label of their input row.
C11_OutputOrder ==
    pc \in {"sorted", "returned"} =>
        /\ Len(result_df) = Len(remaining_purchases)
        /\ {result_df[i].index : i \in 1..Len(result_df)}
              = 0..(Len(remaining_purchases) - 1)
        /\ \A i \in 1..Len(result_df) :
              LET lot == remaining_purchases[result_df[i].index + 1]
              IN  /\ result_df[i].ScripName = lot.ScripName
                  /\ result_df[i].BuyQty = lot.BuyQty
                  /\ result_df[i].RemainingQty = lot.RemainingQty
        /\ \A i, j \in 1..Len(result_df) :
              i < j => remaining_purchases[result_df[i].index + 1].Original_Index
                          < remaining_purchases[result_df[j].index + 1].Original_Index

\* The rows of two companies alternate in the input, and the returned order is
\* not the order in which the lots were collected.
C11_Witness ==
    /\ pc = "returned"
    /\ Len(result_df) = 3
    /\ result_df[1].ScripName # result_df[2].ScripName
    /\ result_df[2].index = 2
    /\ result_df[3].index = 1

\* C12: a company whose dates decrease somewhere is left out: nothing is
\* matched for it and it has no lot in the output; every other company is
\* processed, and its lots are those it has when its rows are the whole
\* input.
C12_UnsortedSkipped ==
    /\ \A i \in 1..Len(remaining_purchases) :
          Chronological(remaining_purchases[i].ScripName)
    /\ \A n \in 1..Len(log) : Chronological(df[log[n].row + 1].ScripName)
    /\ pc # "validate" =>
          \A c \in Companies :
              (\E k \in 1..Len(companies_to_process) : companies_to_process[k] = c)
                  <=> (LabelsOf(c) # {} /\ Chronological(c))
    /\ AllProcessed =>
          \A c \in Companies :
              (LabelsOf(c) # {} /\ Chronological(c))
                  => CoreSeq(OutputOf(c)) = CoreSeq(Alone(c))

\* The run is over; a company with a buy was left out for its dates, its rows
\* lying around a row of a company that has a lot in the result.
C12_Witness ==
    /\ pc = "returned"
    /\ Len(result_df) = 1
    /\ Len(df) = 3
    /\ df[1].ScripName = df[3].ScripName
    /\ df[1].BuyQty > 0
    /\ ~Chronological(df[1].ScripName)
    /\ result_df[1].ScripName = df[2].ScripName

\* C13: the lots collected for a company are those it has when its rows are
\* the whole input, whatever rows of other companies lie before, between or
\* after them; and the queue and the buckets a pass of the loop leaves behind
\* hold rows of its own company only.
C13_Isolation ==
    /\ \A c \in ProcessedCompanies : CoreSeq(OutputOf(c)) = CoreSeq(Alone(c))
    /\ company_pos >= 1 =>
          LET company == companies_to_process[company_pos]
          IN  /\ \A i \in 1..Len(purchase_queue) :
                    /\ purchase_queue[i].ScripName = company
                    /\ purchase_queue[i].Original_Index \in LabelsOf(company)
              /\ \A d \in DOMAIN daily_buys :
                    /\ \A n \in 1..Len(daily_buys[d].Trades) :
                          daily_buys[d].Trades[n] \in LabelsOf(company)
                    /\ daily_buys[d].BuyQty =
                          SumFun([n \in 1..Len(daily_buys[d].Trades) |->
                                     df[daily_buys[d].Trades[n] + 1].BuyQty])

\* Two companies have been processed, the first leaving a bucket behind and
\* the second buying on the date of that bucket; both have lots in the output.
C13_Witness ==
    /\ company_pos = 2
    /\ Len(df) = 3
    /\ df[1].ScripName # df[2].ScripName
    /\ df[1].ScripName = df[3].ScripName
    /\ df[1].BuyQty > 0
    /\ df[2].BuyQty > 0
    /\ df[3].SellQty > 0
    /\ df[2].TradeDate = df[1].TradeDate
    /\ OutputOf(df[1].ScripName) # <<>>
    /\ OutputOf(df[2].ScripName) # <<>>

\* C14: the run has one outcome: the one step with a choice, the sort of the
\* collected lots, has exactly one ordering to choose, since no two collected
\* lots have the same index label.
C14_Deterministic ==
    /\ \A i, j \in 1..Len(remaining_purchases) :
          i # j => remaining_purchases[i].Original_Index
                      # remaining_purchases[j].Original_Index
    /\ (AllProcessed /\ remaining_purchases # <<>>) =>
          Cardinality(SortValues(remaining_purchases)) = 1
    /\ pc \in {"sorted", "returned"} =>
          \A other \in SortValues(remaining_purchases) :
              \A i \in 1..Len(result_df) : result_df[i].index = other[i].index

\* Three lots of two companies are sorted.
C14_Witness ==
    /\ pc = "sorted"
    /\ Len(result_df) = 3
    /\ \E i, j \in 1..3 : result_df[i].ScripName # result_df[j].ScripName

====
